---- MODULE Spec2Model ----
(***************************************************************************)
(* A model of main.py: the eight tool handlers of the SQLite gateway, the  *)
(* SQLiteHandler they use, and as much of the sqlite3 driver as the        *)
(* handlers' results depend on (statement recognition, the implicit        *)
(* transaction the driver opens before INSERT/UPDATE/DELETE, the write     *)
(* lock, and connections that are never closed by the source).             *)
(*                                                                         *)
(* SQL text is a sequence of tokens.  A mapping (a Python dict) is a       *)
(* sequence of <<key, value>> pairs with distinct keys, in iteration       *)
(* order.  Python None and SQL NULL are the value NULL.                    *)
(***************************************************************************)
EXTENDS Integers, Sequences, FiniteSets, TLC

\* ---------------------------------------------------------------- bounds
MaxId == 2        \* largest rowid a table of the model holds
MaxVal == 2       \* column values are 1..MaxVal
MaxLimit == 2     \* limit and offset arguments are 0..MaxLimit
MaxKeys == 2      \* keys of a mapping handed to a statement builder alone

\* ---------------------------------------------------------------- values
NULL == -1

Vals == 1..MaxVal
Ids == 1..MaxId

\* the table the database file may hold: t (id INTEGER PRIMARY KEY, a)
Columns == <<"id", "a">>

ColumnSet == {Columns[i] : i \in DOMAIN Columns}

\* ---------------------------------------------------------------- dicts
Values(m) == [i \in DOMAIN m |-> m[i][2]]

IsDict(m) == \A i, j \in DOMAIN m : m[i][1] = m[j][1] => i = j

Lookup(m, k) == m[CHOOSE i \in DOMAIN m : m[i][1] = k][2]

HasKey(m, k) == \E i \in DOMAIN m : m[i][1] = k

\* every dict of at most n keys over the given <<key, value>> items, in every
\* iteration order
DictsOver(items, n) == UNION {{m \in [1..len -> items] : IsDict(m)} : len \in 0..n}

\* ---------------------------------------------------------------- text
\* f"{n}": the decimal text of a number
Str(n) == ToString(n)

\* sep.join(parts), parts a sequence of token sequences
RECURSIVE Join(_, _)
Join(parts, sep) ==
    IF parts = <<>> THEN <<>>
    ELSE IF Len(parts) = 1 THEN parts[1]
    ELSE parts[1] \o <<sep>> \o Join(Tail(parts), sep)

\* f"{k}=?" for k in m.keys()
Assignments(m) == [i \in DOMAIN m |-> <<m[i][1], "=?">>]

\* ["?"] * len(m)
Placeholders(m) == [i \in DOMAIN m |-> <<"?">>]

KeyTokens(m) == [i \in DOMAIN m |-> <<m[i][1]>>]

\* ------------------------------------------------- statement construction
\* create_record, lines 183-187
InsertSql(table, data) ==
    <<"INSERT", "INTO">> \o table \o <<"(">> \o Join(KeyTokens(data), ",") \o <<")">>
        \o <<"VALUES", "(">> \o Join(Placeholders(data), ",") \o <<")">>

InsertValues(data) == Values(data)

ReadSqlTruthy(table, conditions, limit, offset) ==
    <<"SELECT", "*", "FROM">> \o table
        \o (IF conditions # <<>> THEN <<"WHERE">> \o Join(Assignments(conditions), "AND") ELSE <<>>)
        \o (IF limit # NULL /\ limit # 0
            THEN <<"LIMIT", Str(limit)>>
                     \o (IF offset # NULL /\ offset # 0 THEN <<"OFFSET", Str(offset)>> ELSE <<>>)
            ELSE <<>>)

\* read_records, lines 206-216; limit and offset are NULL when not given
ReadSql(table, conditions, limit, offset) ==
    <<"SELECT", "*", "FROM">> \o table
        \o (IF conditions # <<>> THEN <<"WHERE">> \o Join(Assignments(conditions), "AND") ELSE <<>>)
        \o (IF limit # NULL
            THEN <<"LIMIT", Str(limit)>>
                     \o (IF offset # NULL THEN <<"OFFSET", Str(offset)>> ELSE <<>>)
            ELSE <<>>)

ReadValues(conditions) == Values(conditions)

UpdateSqlClausesSwapped(table, data, conditions) ==
    <<"UPDATE">> \o table \o <<"SET">> \o Join(Assignments(conditions), ",")
        \o <<"WHERE">> \o Join(Assignments(data), "AND")

\* update_records, lines 237-241
UpdateSql(table, data, conditions) ==
    <<"UPDATE">> \o table \o <<"SET">> \o Join(Assignments(data), ",")
        \o <<"WHERE">> \o Join(Assignments(conditions), "AND")

UpdateValuesSwapped(data, conditions) == Values(conditions) \o Values(data)

UpdateValues(data, conditions) == Values(data) \o Values(conditions)

DeleteSqlOptionalWhere(table, conditions) ==
    <<"DELETE", "FROM">> \o table
        \o (IF conditions # <<>> THEN <<"WHERE">> \o Join(Assignments(conditions), "AND") ELSE <<>>)

\* delete_records, lines 261-264
DeleteSql(table, conditions) ==
    <<"DELETE", "FROM">> \o table \o <<"WHERE">> \o Join(Assignments(conditions), "AND")

DeleteValues(conditions) == Values(conditions)

\* SQLiteHandler.get_table_schema, line 72
SchemaSql(table_name) == <<"PRAGMA", "table_info", "(">> \o table_name \o <<")">>

\* SQLiteHandler.list_tables, line 67
ListSql == <<"SELECT", "name", "FROM", "sqlite_master", "WHERE", "type='table'", "AND", "name NOT LIKE 'sqlite_%'">>

\* a statement that is not an INSERT/UPDATE/DELETE/REPLACE by its first keyword
WithPrefix == <<"WITH", "x", "AS", "(", "SELECT", "1", ")">>

\* --------------------------------------------------- the driver: parsing
Reserved == {"SELECT", "*", "FROM", "WHERE", "AND", "LIMIT", "OFFSET", "INSERT", "INTO",
             "VALUES", "UPDATE", "SET", "DELETE", "PRAGMA", "table_info", "WITH", "AS",
             "(", ")", ",", ";", "?", "=?"}

IsIdent(tok) == tok \notin Reserved

Find(s, tok) == IF \E i \in DOMAIN s : s[i] = tok
                THEN CHOOSE i \in DOMAIN s : s[i] = tok /\ \A j \in 1..(i - 1) : s[j] # tok
                ELSE 0

From(s, i) == SubSeq(s, i, Len(s))

StartsWith(s, p) == Len(s) >= Len(p) /\ SubSeq(s, 1, Len(p)) = p

\* col=? sep col=? ... : at least one term
IsTermList(toks, sep) ==
    /\ Len(toks) % 3 = 2
    /\ \A i \in DOMAIN toks :
          /\ i % 3 = 1 => IsIdent(toks[i])
          /\ i % 3 = 2 => toks[i] = "=?"
          /\ i % 3 = 0 => toks[i] = sep

TermCols(toks) == [j \in 1..((Len(toks) + 1) \div 3) |-> toks[3 * j - 2]]

\* x , x , ... : at least one item, every item satisfying the test
IsCommaList(toks, isCol) ==
    /\ Len(toks) % 2 = 1
    /\ \A i \in DOMAIN toks :
          /\ i % 2 = 1 => (IF isCol THEN IsIdent(toks[i]) ELSE toks[i] = "?")
          /\ i % 2 = 0 => toks[i] = ","

CommaItems(toks) == [j \in 1..((Len(toks) + 1) \div 2) |-> toks[2 * j - 1]]

IsNumber(tok) == \E n \in 0..(MaxLimit + 1) : Str(n) = tok

Number(tok) == CHOOSE n \in 0..(MaxLimit + 1) : Str(n) = tok

SyntaxError == [kind |-> "error", table |-> "", cols |-> <<>>, conds |-> <<>>,
                limit |-> NULL, offset |-> NULL, dml |-> FALSE]

Stmt(kind, table, cols, conds, limit, offset) ==
    [kind |-> kind, table |-> table, cols |-> cols, conds |-> conds,
     limit |-> limit, offset |-> offset, dml |-> FALSE]

\* [LIMIT n [OFFSET m]] at the end of a SELECT
IsLimitClause(toks) ==
    \/ toks = <<>>
    \/ Len(toks) = 2 /\ toks[1] = "LIMIT" /\ IsNumber(toks[2])
    \/ Len(toks) = 4 /\ toks[1] = "LIMIT" /\ IsNumber(toks[2])
                     /\ toks[3] = "OFFSET" /\ IsNumber(toks[4])

\* [WHERE terms] at the end of an UPDATE or a DELETE, or before LIMIT
IsWhereClause(toks) == toks = <<>> \/ (toks[1] = "WHERE" /\ IsTermList(Tail(toks), "AND"))

WhereCols(toks) == IF toks = <<>> THEN <<>> ELSE TermCols(Tail(toks))

\* the tokens before position i, all of them when i = 0
Before(s, i) == IF i = 0 THEN s ELSE SubSeq(s, 1, i - 1)

\* the tokens from position i on, none when i = 0
AtAndAfter(s, i) == IF i = 0 THEN <<>> ELSE From(s, i)

\* the tokens after position i, none when i = 0
After(s, i) == IF i = 0 THEN <<>> ELSE From(s, i + 1)

SelectParts(table, where, lim) ==
    IF IsWhereClause(where) /\ IsLimitClause(lim)
    THEN Stmt("select", table, <<>>, WhereCols(where),
              IF Len(lim) >= 2 THEN Number(lim[2]) ELSE NULL,
              IF Len(lim) = 4 THEN Number(lim[4]) ELSE NULL)
    ELSE SyntaxError

SelectClauses(table, rest) ==
    SelectParts(table, Before(rest, Find(rest, "LIMIT")), AtAndAfter(rest, Find(rest, "LIMIT")))

ParseSelect(s) ==
    IF Len(s) >= 4 /\ SubSeq(s, 1, 3) = <<"SELECT", "*", "FROM">> /\ IsIdent(s[4])
    THEN SelectClauses(s[4], From(s, 5))
    ELSE SyntaxError

\* cols: the tokens between the parentheses after the table; rest: after them
InsertParts(table, cols, rest) ==
    IF /\ IsCommaList(cols, TRUE)
       /\ Len(rest) >= 3
       /\ rest[1] = "VALUES" /\ rest[2] = "(" /\ rest[Len(rest)] = ")"
       /\ IsCommaList(SubSeq(rest, 3, Len(rest) - 1), FALSE)
       /\ Len(CommaItems(SubSeq(rest, 3, Len(rest) - 1))) = Len(CommaItems(cols))
    THEN Stmt("insert", table, CommaItems(cols), <<>>, NULL, NULL)
    ELSE SyntaxError

ParseInsert(s) ==
    IF Len(s) >= 4 /\ SubSeq(s, 1, 2) = <<"INSERT", "INTO">> /\ IsIdent(s[3]) /\ s[4] = "("
          /\ Find(s, ")") # 0
    THEN InsertParts(s[3], SubSeq(s, 5, Find(s, ")") - 1), After(s, Find(s, ")")))
    ELSE SyntaxError

UpdateParts(table, set, where) ==
    IF IsTermList(set, ",") /\ IsWhereClause(where)
    THEN Stmt("update", table, TermCols(set), WhereCols(where), NULL, NULL)
    ELSE SyntaxError

UpdateClauses(table, rest) ==
    UpdateParts(table, Before(rest, Find(rest, "WHERE")), AtAndAfter(rest, Find(rest, "WHERE")))

ParseUpdate(s) ==
    IF Len(s) >= 3 /\ s[1] = "UPDATE" /\ IsIdent(s[2]) /\ s[3] = "SET"
    THEN UpdateClauses(s[2], From(s, 4))
    ELSE SyntaxError

ParseDelete(s) ==
    IF Len(s) >= 3 /\ SubSeq(s, 1, 2) = <<"DELETE", "FROM">> /\ IsIdent(s[3])
          /\ IsWhereClause(From(s, 4))
    THEN Stmt("delete", s[3], <<>>, WhereCols(From(s, 4)), NULL, NULL)
    ELSE SyntaxError

ParsePragma(s) ==
    IF Len(s) = 5 /\ SubSeq(s, 1, 3) = <<"PRAGMA", "table_info", "(">> /\ IsIdent(s[4]) /\ s[5] = ")"
    THEN Stmt("pragma", s[4], <<>>, <<>>, NULL, NULL)
    ELSE SyntaxError

ParseCore(s) ==
    IF s = <<>> THEN SyntaxError
    ELSE IF s = ListSql THEN Stmt("list", "sqlite_master", <<>>, <<>>, NULL, NULL)
    ELSE IF s[1] = "SELECT" THEN ParseSelect(s)
    ELSE IF s[1] = "INSERT" THEN ParseInsert(s)
    ELSE IF s[1] = "UPDATE" THEN ParseUpdate(s)
    ELSE IF s[1] = "DELETE" THEN ParseDelete(s)
    ELSE IF s[1] = "PRAGMA" THEN ParsePragma(s)
    ELSE SyntaxError

\* the driver opens a transaction before a statement whose first keyword is
\* INSERT, UPDATE, DELETE or REPLACE, and before no other
IsDml(s) == s # <<>> /\ s[1] \in {"INSERT", "UPDATE", "DELETE", "REPLACE"}

\* the first statement of the text, up to its terminator
FirstStatement(sql) == Before(sql, Find(sql, ";"))

\* what follows the first statement's terminator
Remainder(sql) == After(sql, Find(sql, ";"))

\* a WITH clause may lead a SELECT, an INSERT, an UPDATE or a DELETE
ParseStatement(first) ==
    IF StartsWith(first, WithPrefix) /\ Len(first) > Len(WithPrefix) /\ first[Len(WithPrefix) + 1] # "PRAGMA"
    THEN ParseCore(From(first, Len(WithPrefix) + 1))
    ELSE ParseCore(first)

OneStatement(st, sql) ==
    IF st.kind = "error" \/ Remainder(sql) # <<>> THEN SyntaxError ELSE [st EXCEPT !.dml = IsDml(sql)]

\* sqlite3's prepare of the text handed to Connection.execute: one statement,
\* nothing but its terminator after it
Parse(sql) == OneStatement(ParseStatement(FirstStatement(sql)), sql)

NumParams(st) == Len(st.cols) + Len(st.conds)

\* ------------------------------------------------- the driver: execution
\* A database is [file, tables, rows, locked]: the kind of file at DB_PATH
\* ("nodir": its directory is missing, "absent", "garbage": not a database,
\* "db"), the tables it holds, the committed rows of t, and whether a
\* connection that was never closed still holds the write lock.
NextRowid(rows) == IF rows = {} THEN 1
                   ELSE (CHOOSE r \in rows : \A q \in rows : q.id <= r.id).id + 1

RECURSIVE InRowidOrder(_)
InRowidOrder(rows) ==
    IF rows = {} THEN <<>>
    ELSE LET first == CHOOSE r \in rows : \A q \in rows : r.id <= q.id
         IN  <<first>> \o InRowidOrder(rows \ {first})

\* col = ? with a bound value, under SQL's three-valued logic
Matches(r, conds, vals) ==
    \A k \in DOMAIN conds : r[conds[k]] # NULL /\ vals[k] # NULL /\ r[conds[k]] = vals[k]

Bound(cols, vals, c) == vals[CHOOSE k \in DOMAIN cols : cols[k] = c]

Assigned(r, cols, vals) ==
    [c \in ColumnSet |-> IF \E k \in DOMAIN cols : cols[k] = c THEN Bound(cols, vals, c) ELSE r[c]]

Min(x, y) == IF x < y THEN x ELSE y

Skip(offset) == IF offset = NULL THEN 0 ELSE offset

Window(s, limit, offset) ==
    IF limit = NULL THEN s ELSE SubSeq(s, Skip(offset) + 1, Min(Skip(offset) + limit, Len(s)))

TableInfo == [i \in DOMAIN Columns |->
                 [cid |-> i - 1, name |-> Columns[i], type |-> IF Columns[i] = "id" THEN "INTEGER" ELSE "",
                  notnull |-> 0, dflt_value |-> NULL, pk |-> IF Columns[i] = "id" THEN 1 ELSE 0]]

Failed(db, holds) ==
    [ok |-> FALSE, kind |-> "error", result |-> <<>>, lastrowid |-> 0, changes |-> 0,
     rows |-> db.rows, holds |-> holds, dml |-> FALSE]

Done(kind, result, lastrowid, changes, rows, dml) ==
    [ok |-> TRUE, kind |-> kind, result |-> result, lastrowid |-> lastrowid, changes |-> changes,
     rows |-> rows, holds |-> dml, dml |-> dml]

UniqueIds(rows) == \A r, q \in rows : r.id = q.id => r = q

Inserted(row, st, db) ==
    IF \E r \in db.rows : r.id = row.id
    THEN Failed(db, st.dml)
    ELSE Done("insert", <<>>, row.id, 1, db.rows \cup {row}, st.dml)

WithRowid(new, db) == IF new.id = NULL THEN [new EXCEPT !.id = NextRowid(db.rows)] ELSE new

ExecInsert(st, values, db) ==
    Inserted(WithRowid(Assigned([id |-> NULL, a |-> NULL], st.cols, values), db), st, db)

Updated(hit, changed, st, db) ==
    IF (\E r \in changed : r.id = NULL)
       \/ Cardinality((db.rows \ hit) \cup changed) # Cardinality(db.rows)
       \/ ~UniqueIds((db.rows \ hit) \cup changed)
    THEN Failed(db, st.dml)
    ELSE Done("update", <<>>, 0, Cardinality(hit), (db.rows \ hit) \cup changed, st.dml)

UpdateHit(hit, set, st, db) == Updated(hit, {Assigned(r, st.cols, set) : r \in hit}, st, db)

ExecUpdate(st, values, db) ==
    UpdateHit({r \in db.rows : Matches(r, st.conds, SubSeq(values, Len(st.cols) + 1, Len(values)))},
              SubSeq(values, 1, Len(st.cols)), st, db)

Deleted(hit, st, db) == Done("delete", <<>>, 0, Cardinality(hit), db.rows \ hit, st.dml)

ExecDelete(st, values, db) == Deleted({r \in db.rows : Matches(r, st.conds, values)}, st, db)

ExecSelect(st, values, db) ==
    Done("select",
         Window(InRowidOrder({r \in db.rows : Matches(r, st.conds, values)}), st.limit, st.offset),
         0, 0, db.rows, FALSE)

Run(st, values, db) ==
    IF db.file # "db" \/ st.kind = "error" THEN Failed(db, FALSE)
    ELSE IF st.kind = "list"
         THEN Done("list", [i \in 1..Cardinality(db.tables) |-> [name |-> "t"]], 0, 0, db.rows, FALSE)
    ELSE IF st.kind = "pragma"
         THEN Done("pragma", IF st.table \in db.tables THEN TableInfo ELSE <<>>, 0, 0, db.rows, FALSE)
    ELSE IF st.table \notin db.tables
            \/ (\E k \in DOMAIN st.cols : st.cols[k] \notin ColumnSet)
            \/ (\E k \in DOMAIN st.conds : st.conds[k] \notin ColumnSet)
            \/ Len(values) # NumParams(st)
         THEN Failed(db, FALSE)
    ELSE IF st.kind = "select" THEN ExecSelect(st, values, db)
    ELSE IF db.locked THEN Failed(db, FALSE)
    ELSE IF st.kind = "insert" THEN ExecInsert(st, values, db)
    ELSE IF st.kind = "update" THEN ExecUpdate(st, values, db)
    ELSE ExecDelete(st, values, db)

\* Connection.execute(sql, values) on a fresh connection to db
Execute(sql, values, db) == Run(Parse(sql), values, db)

\* sqlite3.connect(db_path), line 38: creates the file when it is absent
Connect(db) ==
    IF db.file = "nodir" THEN [ok |-> FALSE, db |-> db]
    ELSE IF db.file = "absent" THEN [ok |-> TRUE, db |-> [db EXCEPT !.file = "db"]]
    ELSE [ok |-> TRUE, db |-> db]

\* --------------------------------------------------------- SQLiteHandler
\* a handler call's outcome: (status, value), the database it leaves behind
\* and whether the driver raised
Outcome(status, kind, value, db, raised) ==
    [status |-> status, kind |-> kind, value |-> value, db |-> db, raised |-> raised]

Raised(r, db) == Outcome(FALSE, "error", <<>>, [db EXCEPT !.locked = db.locked \/ r.holds], TRUE)

\* the connection goes out of scope with its transaction open
Uncommitted(r, db) ==
    [db EXCEPT !.rows = IF r.dml THEN db.rows ELSE r.rows, !.locked = db.locked \/ r.holds]

Committed(r, db) == [db EXCEPT !.rows = r.rows]

QueryOutcomeCommitting(r, db) ==
    IF r.ok THEN Outcome(TRUE, r.kind, r.result, Committed(r, db), FALSE) ELSE Raised(r, db)

\* lines 43-51 given what conn.execute did: fetchall, no commit
QueryOutcome(r, db) ==
    IF r.ok THEN Outcome(TRUE, r.kind, r.result, Uncommitted(r, db), FALSE) ELSE Raised(r, db)

RunOutcomeUncommitted(r, db) ==
    IF r.ok
    THEN Outcome(TRUE, "run", [lastID |-> r.lastrowid, changes |-> r.changes], Uncommitted(r, db), FALSE)
    ELSE Raised(r, db)

\* lines 55-63 given what conn.execute did: commit, report lastrowid and total_changes
RunOutcome(r, db) ==
    IF r.ok
    THEN Outcome(TRUE, "run", [lastID |-> r.lastrowid, changes |-> r.changes], Committed(r, db), FALSE)
    ELSE Raised(r, db)

\* lines 41-51
execute_query(sql, values, db) == QueryOutcome(Execute(sql, values, db), db)

\* lines 53-63
execute_run(sql, values, db) == RunOutcome(Execute(sql, values, db), db)

\* lines 65-68
list_tables(db) == execute_query(ListSql, <<>>, db)

\* lines 70-73
handler_get_table_schema(table_name, db) == execute_query(SchemaSql(table_name), <<>>, db)

\* ------------------------------------------------------------ envelopes
\* json.dumps of a scalar: None is null, a number is its decimal text
JsonScalar(v) == IF v = NULL THEN "null" ELSE Str(v)

JsonBool(b) == IF b THEN "true" ELSE "false"

\* json.dumps of a dict of numbers and None
JsonObject(r) == [f \in DOMAIN r |-> JsonScalar(r[f])]

JsonColumn(r) == [cid |-> JsonScalar(r.cid), name |-> r.name, type |-> r.type,
                  notnull |-> JsonScalar(r.notnull), dflt_value |-> JsonScalar(r.dflt_value),
                  pk |-> JsonScalar(r.pk)]

\* json.dumps(value, indent=2) of what a handler returned
json_dumps(kind, value) ==
    IF kind = "run" THEN JsonObject(value)
    ELSE IF kind = "pragma" THEN [i \in DOMAIN value |-> JsonColumn(value[i])]
    ELSE IF kind = "list" THEN value
    ELSE [i \in DOMAIN value |-> JsonObject(value[i])]

Success(text) == [content |-> <<[type |-> "text", text |-> text]>>]

Failure(text) == [content |-> <<[type |-> "text", text |-> text]>>, isError |-> TRUE]

IsError(env) == "isError" \in DOMAIN env /\ env.isError

Text(env) == env.content[1].text

\* ----------------------------------------------------------------- tools
\* what a tool call produced: the envelope, the database afterwards, and
\* whether anything raised while it ran
Reply(env, db, raised) == [resp |-> env, db |-> db, raised |-> raised]

\* the shape every tool but db_info has: connect, run one statement, wrap
Wrapped(o, message) ==
    IF ~o.status THEN Reply(Failure(message), o.db, o.raised)
    ELSE Reply(Success(json_dumps(o.kind, o.value)), o.db, o.raised)

\* SQLiteHandler(db_path) raised: the except clause of the tool answers str(e)
Unopened(conn) == Reply(Failure("unable to open database file"), conn.db, TRUE)

\* os.path.getsize, in pages: an empty file, a file that is no database, or
\* the schema page and a root page of each table
GetSize(db) == IF db.file = "garbage" THEN 1
               ELSE IF db.tables = {} THEN 0 ELSE 1 + Cardinality(db.tables)

\* os.path.getmtime, a clock reading
GetMTime(db) == 1

Exists(db) == db.file \in {"garbage", "db"}

InfoData(db, o) ==
    [dbPath |-> "abs_path", exists |-> JsonBool(Exists(db)),
     size |-> JsonScalar(IF Exists(db) THEN GetSize(db) ELSE 0),
     lastModified |-> JsonScalar(IF Exists(db) THEN GetMTime(db) ELSE NULL),
     tableCount |-> JsonScalar(IF o.status THEN Len(o.value) ELSE 0)]

InfoReply(db, o) == Reply(Success(InfoData(db, o)), o.db, o.raised)

\* lines 88-112, on the connection opened at line 91
InfoOn(conn) == IF ~conn.ok THEN Unopened(conn) ELSE InfoReply(conn.db, list_tables(conn.db))

tool_db_info(db) == InfoOn(Connect(db))

\* lines 124-135
QueryOn(conn, sql, values) ==
    IF ~conn.ok THEN Unopened(conn)
    ELSE Wrapped(execute_query(sql, values, conn.db), "Query execution failed.")

tool_query(sql, values, db) == QueryOn(Connect(db), sql, values)

\* lines 143-153
ListOn(conn) ==
    IF ~conn.ok THEN Unopened(conn) ELSE Wrapped(list_tables(conn.db), "Failed to list tables.")

tool_listing_tables(db) == ListOn(Connect(db))

\* lines 161-172
SchemaOn(conn, tableName) ==
    IF ~conn.ok THEN Unopened(conn)
    ELSE Wrapped(handler_get_table_schema(tableName, conn.db), "Failed to get table schema.")

tool_get_table_schema(tableName, db) == SchemaOn(Connect(db), tableName)

\* lines 180-195
CreateOn(conn, table, data) ==
    IF ~conn.ok THEN Unopened(conn)
    ELSE Wrapped(execute_run(InsertSql(table, data), InsertValues(data), conn.db),
                 "Insert operation failed.")

tool_create_record(table, data, db) == CreateOn(Connect(db), table, data)

\* lines 203-226
ReadOn(conn, table, conditions, limit, offset) ==
    IF ~conn.ok THEN Unopened(conn)
    ELSE Wrapped(execute_query(ReadSql(table, conditions, limit, offset), ReadValues(conditions), conn.db),
                 "Failed to read records.")

tool_read_records(table, conditions, limit, offset, db) ==
    ReadOn(Connect(db), table, conditions, limit, offset)

\* lines 234-250
UpdateOn(conn, table, data, conditions) ==
    IF ~conn.ok THEN Unopened(conn)
    ELSE Wrapped(execute_run(UpdateSql(table, data, conditions), UpdateValues(data, conditions), conn.db),
                 "Update operation failed.")

tool_update_records(table, data, conditions, db) == UpdateOn(Connect(db), table, data, conditions)

DeleteOnUncommitted(conn, table, conditions) ==
    IF ~conn.ok THEN Unopened(conn)
    ELSE Wrapped(RunOutcomeUncommitted(Execute(DeleteSql(table, conditions), DeleteValues(conditions), conn.db),
                                       conn.db),
                 "Delete operation failed.")

\* lines 258-272
DeleteOn(conn, table, conditions) ==
    IF ~conn.ok THEN Unopened(conn)
    ELSE Wrapped(execute_run(DeleteSql(table, conditions), DeleteValues(conditions), conn.db),
                 "Delete operation failed.")

tool_delete_records(table, conditions, db) == DeleteOn(Connect(db), table, conditions)

\* ---------------------------------------------------------------- state
VARIABLES file, tables, rows, locked, call, resp, raised, chain, built

vars == <<file, tables, rows, locked, call, resp, raised, chain, built>>

DB == [file |-> file, tables |-> tables, rows |-> rows, locked |-> locked]

Call(op, table, data, conditions, limit, offset, sql, values) ==
    [op |-> op, table |-> table, data |-> data, conditions |-> conditions,
     limit |-> limit, offset |-> offset, sql |-> sql, values |-> values]

NoCall == Call("none", <<>>, <<>>, <<>>, NULL, NULL, <<>>, <<>>)

\* ------------------------------------------------- arguments of the calls
WellFormed == <<"t">>

\* a table name with a statement terminator in it
Malformed == <<"t", ";">>

ColumnItems == {<<"id", v>> : v \in Ids} \cup {<<"a", v>> : v \in Vals}

\* the dicts a record is created from: any of t's columns, in column order
RowDicts == {m \in DictsOver(ColumnItems, Len(Columns)) :
                \A i, j \in DOMAIN m : i < j => m[i][1] = "id"}

\* the dicts of conditions and of new values: at most one column
OneKeyDicts == DictsOver(ColumnItems, 1)

\* the dicts tried with the malformed table name
ProbeDicts == {<<>>, <<<<"a", 1>>>>}

\* (limit, offset) pairs
WindowArgs == {<<NULL, NULL>>, <<NULL, 1>>, <<1, NULL>>, <<1, 1>>}

\* (table, data) of create_record
CreateArgs == ({WellFormed} \X RowDicts) \cup ({Malformed} \X ProbeDicts)

\* (table, conditions) of read_records and delete_records
FilterArgs == ({WellFormed} \X OneKeyDicts) \cup ({Malformed} \X ProbeDicts)

\* (table, data, conditions) of update_records
UpdateArgs == ({WellFormed} \X OneKeyDicts \X OneKeyDicts) \cup ({Malformed} \X ProbeDicts \X ProbeDicts)

Raw(sql, values) == [sql |-> sql, values |-> values]

\* statements handed to query
RawArgs ==
    LET one == <<<<"a", 1>>>>
        two == <<<<"a", MaxVal>>>>
    IN  {Raw(ReadSql(WellFormed, <<>>, NULL, NULL), <<>>),
         Raw(InsertSql(WellFormed, one), InsertValues(one)),
         Raw(UpdateSql(WellFormed, two, one), UpdateValues(two, one)),
         Raw(DeleteSql(WellFormed, one), DeleteValues(one)),
         Raw(WithPrefix \o InsertSql(WellFormed, one), InsertValues(one)),
         Raw(WithPrefix \o DeleteSql(WellFormed, two), DeleteValues(two))}

\* --------------------------------------------------------------- history
\* the call just made reads back what the call before it wrote
ReadsBack(writer) ==
    /\ call.op = writer
    /\ call'.op = "read_records"
    /\ call'.table = call.table
    /\ call'.limit = NULL

ReadsInserted ==
    /\ ReadsBack("create_record")
    /\ ~IsError(resp)
    /\ Len(call'.conditions) = 1
    /\ call'.conditions[1][1] = "id"
    /\ Str(call'.conditions[1][2]) = Text(resp).lastID

ReadsUpdated == ReadsBack("update_records") /\ ~IsError(resp) /\ call'.conditions = call.conditions

ReadsDeleted == ReadsBack("delete_records") /\ call'.conditions = call.conditions

\* the update gave no column of its conditions another value
KeepsConditions ==
    \A i \in DOMAIN call.data, j \in DOMAIN call.conditions :
        call.data[i][1] = call.conditions[j][1] => call.data[i][2] = call.conditions[j][2]

\* the write before the read changed at least one row
Changed == ~IsError(resp) /\ Text(resp).changes # "0"

\* ---------------------------------------------------------------- steps
Init ==
    /\ file \in {"nodir", "absent", "garbage", "db"}
    /\ tables \in IF file = "db" THEN {{}, {"t"}} ELSE {{}}
    /\ rows = {}
    /\ locked = FALSE
    /\ call = NoCall
    /\ resp = Success(<<>>)
    /\ raised = FALSE
    /\ chain = "none"
    /\ built = NoCall

Step(c, reply) ==
    /\ \A r \in reply.db.rows : r.id \in Ids
    /\ call' = c
    /\ resp' = reply.resp
    /\ raised' = reply.raised
    /\ file' = reply.db.file
    /\ tables' = reply.db.tables
    /\ rows' = reply.db.rows
    /\ locked' = reply.db.locked
    /\ chain' = IF ReadsInserted THEN "insert_read"
                ELSE IF ReadsUpdated /\ KeepsConditions /\ Changed THEN "update_read"
                ELSE IF ReadsDeleted /\ Changed THEN "delete_read"
                ELSE "none"
    /\ UNCHANGED built

db_info == Step(Call("db_info", <<>>, <<>>, <<>>, NULL, NULL, <<>>, <<>>), tool_db_info(DB))

query ==
    \E raw \in RawArgs :
        Step(Call("query", <<>>, <<>>, <<>>, NULL, NULL, raw.sql, raw.values),
             tool_query(raw.sql, raw.values, DB))

listing_tables ==
    Step(Call("listing_tables", <<>>, <<>>, <<>>, NULL, NULL, <<>>, <<>>), tool_listing_tables(DB))

get_table_schema ==
    \E t \in {WellFormed, Malformed} :
        Step(Call("get_table_schema", t, <<>>, <<>>, NULL, NULL, <<>>, <<>>),
             tool_get_table_schema(t, DB))

create_record ==
    \E x \in CreateArgs :
        Step(Call("create_record", x[1], x[2], <<>>, NULL, NULL, <<>>, <<>>),
             tool_create_record(x[1], x[2], DB))

read_records ==
    \E x \in FilterArgs, w \in WindowArgs :
        Step(Call("read_records", x[1], <<>>, x[2], w[1], w[2], <<>>, <<>>),
             tool_read_records(x[1], x[2], w[1], w[2], DB))

update_records ==
    \E x \in UpdateArgs :
        Step(Call("update_records", x[1], x[2], x[3], NULL, NULL, <<>>, <<>>),
             tool_update_records(x[1], x[2], x[3], DB))

delete_records ==
    \E x \in FilterArgs :
        Step(Call("delete_records", x[1], <<>>, x[2], NULL, NULL, <<>>, <<>>),
             tool_delete_records(x[1], x[2], DB))

\* the garbage collector finalises a connection no handler closed: its
\* transaction is rolled back and its lock released
collect ==
    /\ locked
    /\ locked' = FALSE
    /\ UNCHANGED <<file, tables, rows, call, resp, raised, chain, built>>

Next ==
    \/ db_info
    \/ query
    \/ listing_tables
    \/ get_table_schema
    \/ create_record
    \/ read_records
    \/ update_records
    \/ delete_records
    \/ collect

Spec == Init /\ [][Next]_vars

\* ------------------------------------------- statement construction alone
BuildTables == {WellFormed}

BuildItems == {<<k, v>> : k \in {"id", "a", "b"}, v \in Vals}

BuildDicts == DictsOver(BuildItems, MaxKeys)

LimitArgs == {NULL} \cup 0..MaxLimit

InitBuild == Init /\ file = "db" /\ tables = {"t"}

Unbuilt == built = NoCall

Build(c) == built' = c /\ UNCHANGED <<file, tables, rows, locked, call, resp, raised, chain>>

build_insert ==
    /\ Unbuilt
    /\ \E t \in BuildTables, d \in BuildDicts :
          Build(Call("create_record", t, d, <<>>, NULL, NULL, InsertSql(t, d), InsertValues(d)))

build_read ==
    /\ Unbuilt
    /\ \E t \in BuildTables, c \in BuildDicts, l \in LimitArgs, o \in LimitArgs :
          Build(Call("read_records", t, <<>>, c, l, o, ReadSql(t, c, l, o), ReadValues(c)))

build_update ==
    /\ Unbuilt
    /\ \E t \in BuildTables, d \in BuildDicts, c \in BuildDicts :
          Build(Call("update_records", t, d, c, NULL, NULL, UpdateSql(t, d, c), UpdateValues(d, c)))

build_delete ==
    /\ Unbuilt
    /\ \E t \in BuildTables, c \in BuildDicts :
          Build(Call("delete_records", t, <<>>, c, NULL, NULL, DeleteSql(t, c), DeleteValues(c)))

NextBuild == build_insert \/ build_read \/ build_update \/ build_delete

SpecBuild == InitBuild /\ [][NextBuild]_vars

\* =============================================================== claims
Range(s) == {s[i] : i \in DOMAIN s}

LastTokens(s, n) == SubSeq(s, Len(s) - n + 1, Len(s))

NameOps == {"get_table_schema", "create_record", "read_records", "update_records", "delete_records"}

WriteOps == {"create_record", "update_records", "delete_records"}

\* the database file holds table t
Serving == file = "db" /\ "t" \in tables

\* C1: every response has exactly one content item and carries isError = true
\* exactly when something raised while the operation ran
C1_EnvelopeReflectsFailure == Len(resp.content) = 1 /\ (IsError(resp) <=> raised)

\* C2: db_info with no file at the configured path answers, without isError,
\* exists = false, size = 0, lastModified = null and tableCount = 0
C2_AbsentFileReported ==
    [][(file = "absent" /\ call'.op = "db_info")
         => /\ ~IsError(resp')
            /\ Text(resp').exists = "false"
            /\ Text(resp').size = "0"
            /\ Text(resp').lastModified = "null"
            /\ Text(resp').tableCount = "0"]_vars

\* the record of the row a successful create_record(call.data) made with rowid key
InsertedRecord(key) ==
    [c \in ColumnSet |-> IF c = "id" THEN Str(key)
                         ELSE IF HasKey(call.data, c) THEN JsonScalar(Lookup(call.data, c))
                         ELSE "null"]

\* C3: after a successful create_record, read_records on the same table with
\* the one condition id = lastID answers exactly one record: the inserted
\* values, the key, and null in each column the insert did not name
C3_InsertReadRoundTrip ==
    [][ReadsInserted
         => /\ ~IsError(resp')
            /\ Text(resp') = <<InsertedRecord(call'.conditions[1][2])>>]_vars

C3_Witness ==
    /\ chain = "insert_read"
    /\ ~IsError(resp)
    /\ Len(Text(resp)) = 1
    /\ Cardinality(rows) >= 2

\* the read answered as many records as the update changed, each holding the
\* update's value in every column the update named
ReadShowsUpdate ==
    /\ ~IsError(resp')
    /\ Str(Len(Text(resp'))) = Text(resp).changes
    /\ \A i \in DOMAIN Text(resp'), k \in DOMAIN call.data :
          Text(resp')[i][call.data[k][1]] = JsonScalar(call.data[k][2])

\* C4, for any update: after a successful update_records, read_records with the
\* same table and conditions answers the updated records with their new values
C4_UpdateReadOriginal == [][(Serving /\ ReadsUpdated) => ReadShowsUpdate]_vars

\* C4, for an update that gives no column of its conditions another value than
\* the condition's: after a successful update_records, read_records with the
\* same table and conditions answers as many records as the update changed,
\* each with the new values
C4_UpdateRead == [][(ReadsUpdated /\ KeepsConditions) => ReadShowsUpdate]_vars

C4_Witness == chain = "update_read" /\ ~IsError(resp) /\ Len(Text(resp)) >= 1 /\ Cardinality(rows) >= 2

\* C5, for any delete: after delete_records, read_records with the same table
\* and conditions and no limit answers an empty sequence
C5_DeleteReadOriginal ==
    [][(Serving /\ ReadsDeleted /\ call.table = WellFormed)
         => (~IsError(resp') /\ Text(resp') = <<>>)]_vars

\* C5, for a delete that succeeded: after a delete_records that answered
\* without isError, read_records with the same table and conditions and no
\* limit answers an empty sequence
C5_DeleteRead ==
    [][(ReadsDeleted /\ ~IsError(resp)) => (~IsError(resp') /\ Text(resp') = <<>>)]_vars

C5_Witness == chain = "delete_read" /\ ~IsError(resp) /\ Text(resp) = <<>> /\ rows # {}

\* C6: the read statement ends with LIMIT n alone when only limit = n is given,
\* with LIMIT n OFFSET m when both are given, and has neither clause when limit
\* is not given, for every n and m, 0 included
C6_LimitOffsetClauses ==
    built.op = "read_records" =>
        /\ (built.limit # NULL /\ built.offset = NULL)
              => /\ LastTokens(built.sql, 2) = <<"LIMIT", Str(built.limit)>>
                 /\ "OFFSET" \notin Range(built.sql)
        /\ (built.limit # NULL /\ built.offset # NULL)
              => LastTokens(built.sql, 4)
                     = <<"LIMIT", Str(built.limit), "OFFSET", Str(built.offset)>>
        /\ built.limit = NULL
              => ("LIMIT" \notin Range(built.sql) /\ "OFFSET" \notin Range(built.sql))

C6_Witness ==
    /\ built.op = "read_records"
    /\ built.limit = 0
    /\ built.offset = 0
    /\ built.conditions # <<>>
    /\ LastTokens(built.sql, 4) = <<"LIMIT", "0", "OFFSET", "0">>

\* C7: a tool given a table name that holds a statement terminator answers a
\* failure envelope
C7_MalformedNameFails == (call.op \in NameOps /\ Find(call.table, ";") # 0) => IsError(resp)

IsPlaceholder(tok) == tok \in {"?", "=?"}

\* the positions of the placeholders of a statement, in order
PlaceholderPositions(sql) == SelectSeq([i \in DOMAIN sql |-> i], LAMBDA i : IsPlaceholder(sql[i]))

\* the columns an INSERT lists, in order
ListedColumns(sql) ==
    SelectSeq(SubSeq(sql, Find(sql, "(") + 1, Find(sql, ")") - 1), LAMBDA tok : tok # ",")

\* the column the k-th placeholder stands for
PlaceholderColumn(b, k) ==
    IF b.op = "create_record" THEN ListedColumns(b.sql)[k]
    ELSE b.sql[PlaceholderPositions(b.sql)[k] - 1]

\* the k-th placeholder of an UPDATE is in its SET clause
InSetClause(b, k) ==
    b.op = "update_records" /\ PlaceholderPositions(b.sql)[k] < Find(b.sql, "WHERE")

\* the mapping the k-th placeholder takes its value from
PlaceholderSource(b, k) ==
    IF b.op = "create_record" \/ InSetClause(b, k) THEN b.data ELSE b.conditions

\* C8: a built statement has as many placeholders as bound values, the k-th
\* bound value is the caller's value for the column at the k-th placeholder,
\* an insert of N columns has N placeholders, and an update binds every data
\* value before every conditions value
C8_PlaceholdersMatchValues ==
    built.op # "none" =>
        /\ Len(PlaceholderPositions(built.sql)) = Len(built.values)
        /\ Len(built.values) = Len(built.data) + Len(built.conditions)
        /\ \A k \in DOMAIN built.values :
              /\ HasKey(PlaceholderSource(built, k), PlaceholderColumn(built, k))
              /\ built.values[k] = Lookup(PlaceholderSource(built, k), PlaceholderColumn(built, k))
              /\ built.op = "update_records"
                    => (k <= Len(built.data) <=> InSetClause(built, k))

C8_Witness ==
    /\ built.op = "update_records"
    /\ Len(built.data) = 2
    /\ Len(built.conditions) = 2
    /\ built.data[1][1] = built.conditions[2][1]
    /\ built.data[1][2] # built.conditions[2][2]
    /\ Len(built.values) = 4

\* the statement update_records or delete_records built for a call
StatementOf(c) == IF c.op = "update_records" THEN UpdateSql(c.table, c.data, c.conditions)
                  ELSE DeleteSql(c.table, c.conditions)

\* C9: update_records or delete_records with empty conditions builds a
\* statement that ends at WHERE, answers a failure envelope and leaves every
\* table as it was
C9_EmptyConditionsChangeNothing ==
    [][(call'.op \in {"update_records", "delete_records"} /\ call'.conditions = <<>>)
         => /\ LastTokens(StatementOf(call'), 1) = <<"WHERE">>
            /\ IsError(resp')
            /\ rows' = rows
            /\ tables' = tables]_vars

C9_Witness ==
    /\ call.op = "delete_records"
    /\ call.conditions = <<>>
    /\ call.table = WellFormed
    /\ Serving
    /\ ~locked
    /\ rows # {}
    /\ IsError(resp)

\* a statement that inserts, updates or deletes rows
RowModifying(sql) == Range(sql) \cap {"INSERT", "UPDATE", "DELETE"} # {}

\* C10, for any row-modifying statement: a row-modifying statement handed to query answers a success
\* envelope and leaves the rows later operations see as they were; only
\* create_record, update_records and delete_records change those rows
C10_QueryWritesOriginal ==
    /\ [][(Serving /\ ~locked /\ call'.op = "query" /\ RowModifying(call'.sql))
            => (~IsError(resp') /\ rows' = rows)]_vars
    /\ [][rows' # rows => call'.op \in WriteOps]_vars

\* C10, by the statement's first keyword: a statement handed to query whose first keyword is INSERT,
\* UPDATE or DELETE leaves the rows later operations see as they were; it
\* answers a success envelope when no unclosed connection holds the write lock
\* and a failure envelope when one holds it throughout the call; those rows are changed only by
\* create_record, update_records, delete_records and a query statement whose
\* first keyword is none of these
C10_QueryWrites ==
    /\ [][(call'.op = "query" /\ IsDml(call'.sql)) => rows' = rows]_vars
    /\ [][(Serving /\ ~locked /\ call'.op = "query" /\ IsDml(call'.sql)) => ~IsError(resp')]_vars
    /\ [][(locked /\ locked' /\ call'.op = "query" /\ IsDml(call'.sql)) => IsError(resp')]_vars
    /\ [][rows' # rows => (call'.op \in WriteOps \/ (call'.op = "query" /\ ~IsDml(call'.sql)))]_vars

C10_Witness ==
    /\ call.op = "query"
    /\ IsDml(call.sql)
    /\ ~IsError(resp)
    /\ locked
    /\ rows # {}

====
